---- MODULE Spec2Model ----
(***************************************************************************)
(* Fitness-Tracker-Api: the API-key gate (middlewares/authMiddleware.js    *)
(* and its x-api-key revision), the start-up sequence of index.js and the  *)
(* workout / progress / user route handlers of index.js, over a document   *)
(* store.                                                                  *)
(*                                                                         *)
(* A request is handled in one step: the gate, then the handler with its   *)
(* single store call, then the response.  The routers of routes/ pass a    *)
(* request on to the handlers of index.js, whose Workout, Progress and     *)
(* User are the models of models/.                                         *)
(***************************************************************************)
EXTENDS Integers, Sequences, FiniteSets, TLC

VARIABLES
    pc,         \* position of the process: "boot", "listening" or "exited"
    env,        \* process.env as read at start: API_KEY and the connection string
    revision,   \* which revision of the gate is deployed
    workouts,   \* the workout collection, in insertion (natural) order
    progress,   \* the progress collection
    users,      \* the user collection
    nextId,     \* the next identifier the store assigns
    clock,      \* the millisecond the last insert happened in
    deleted,    \* identifiers a delete has removed (history)
    request,    \* the request being handled, NoReq between requests
    response,   \* what the program did with it, NoRes until it has answered
    before,     \* the workout collection as the request's handler found it (history)
    first       \* the exchange a follow-up request follows (history)

vars == <<pc, env, revision, workouts, progress, users, nextId, clock, deleted, request,
          response, before, first>>

store == <<workouts, progress, users>>

\* ------------------------------------------------------------------ bounds

\* How many workouts the store may ever have been asked to insert.
MaxIds == 2

\* ------------------------------------------------------------------ values

\* JavaScript's undefined: an absent header, an unset environment variable.
Undefined == "<undefined>"

\* A key of the JSON body that is not there.
Absent == "<absent>"

\* The two header names the revisions of the gate read.
HeaderNames == {"API_KEY", "x-api-key"}

\* Values a client may send in a key header.
KeyValues == {"", "k1", "k2"}

\* Values process.env.API_KEY may have at start.
SecretValues == {Undefined, "", "k1"}

\* Values the store connection string may have at start.
UriValues == {Undefined, "mongodb://db"}

Revisions == {"authMiddleware", "part_000"}

NoHeaders == [n \in HeaderNames |-> Undefined]

\* Requests carry at most one of the two key headers.
AllHeaders ==
    {NoHeaders} \cup
    {[NoHeaders EXCEPT ![n] = v] : n \in HeaderNames, v \in KeyValues}

\* The headers of a client of the deployed gate: the right key, a wrong key, none.
FewHeaders ==
    {NoHeaders, [NoHeaders EXCEPT !["API_KEY"] = "k1"], [NoHeaders EXCEPT !["API_KEY"] = "k2"]}

Fields == {"name", "type", "duration", "caloriesBurned"}

StringFields == {"name", "type"}

NumberFields == {"duration", "caloriesBurned"}

\* The JSON text of a body's values, field by field.
Tokens ==
    [name |-> {"Run"}, type |-> {"cardio"},
     duration |-> {"30", "abc"}, caloriesBurned |-> {"300", "350"}]

EmptyBody == [f \in Fields |-> Absent]

FullBodies ==
    {b \in [Fields -> UNION {Tokens[f] : f \in Fields}] : \A f \in Fields : b[f] \in Tokens[f]}

OneFieldBodies == {[EmptyBody EXCEPT ![f] = v] : f \in Fields, v \in UNION {Tokens[g] : g \in Fields}}

\* Bodies of the CRUD runs: every full payload, every one-field payload, the empty one.
AllBodies ==
    FullBodies \cup {EmptyBody} \cup
    {b \in OneFieldBodies : \A f \in Fields : b[f] = Absent \/ b[f] \in Tokens[f]}

RunBody == [name |-> "Run", type |-> "cardio", duration |-> "30", caloriesBurned |-> "300"]

\* Bodies of the gate runs.
FewBodies == {RunBody, [EmptyBody EXCEPT !["caloriesBurned"] = "350"]}

\* Path parameters: n >= 1 stands for a 24-hex string, BadId for a string that is
\* no ObjectId, NoId for a route without :id.
BadId == 0
NoId == -1

PathIds == (1 .. MaxIds) \cup {BadId}

NoReq == [method |-> "none", path |-> "none", id |-> NoId, headers |-> NoHeaders, body |-> EmptyBody]

Req(method, path, id, headers, body) ==
    [method |-> method, path |-> path, id |-> id, headers |-> headers, body |-> body]

\* --------------------------------------------------------------------- gate

\* req.header(name)
header(req, name) == req.headers[name]

\* !x for a string or undefined
Not(x) == x = Undefined \/ x = ""

\* process.env.API_KEY ? process.env.API_KEY.length : 0, as console.log prints it
LengthText(x) == IF Not(x) THEN "0" ELSE ToString(Len(x))

\* The strings a logged headers object shows.
HeaderTexts(req) == {req.headers[n] : n \in HeaderNames} \ {Undefined}

\* The gate's outcome: what it logged, whether it wrote the 401 itself, how often
\* it called next(), and the request it handed on.
GateOutcome(req, log, reject) ==
    [log |-> log,
     status |-> IF reject THEN 401 ELSE 0,
     wrote |-> reject,
     next |-> IF reject THEN 0 ELSE 1,
     fwd |-> IF reject THEN NoReq ELSE req]

\* Mutant: the gate only looks whether the header is there.
apiKeyMiddlewarePresence(req, e) ==
    LET apiKey == header(req, "API_KEY")
        log == << [label |-> "API Key from request:", texts |-> {apiKey}],
                  [label |-> "API Key from environment variable length:",
                   texts |-> {LengthText(e.API_KEY)}] >>
    IN  GateOutcome(req, log, Not(apiKey))

\* Mutant: the 401 is written without `return`, so next() is called all the same.
apiKeyMiddlewareNoReturn(req, e) ==
    LET apiKey == header(req, "API_KEY")
        log == << [label |-> "API Key from request:", texts |-> {apiKey}],
                  [label |-> "API Key from environment variable length:",
                   texts |-> {LengthText(e.API_KEY)}] >>
    IN  [GateOutcome(req, log, Not(apiKey) \/ apiKey # e.API_KEY) EXCEPT !.next = 1, !.fwd = req]

\* middlewares/authMiddleware.js
apiKeyMiddleware(req, e) ==
    LET apiKey == header(req, "API_KEY")
        log == << [label |-> "API Key from request:", texts |-> {apiKey}],
                  [label |-> "API Key from environment variable length:",
                   texts |-> {LengthText(e.API_KEY)}] >>
    IN  GateOutcome(req, log, Not(apiKey) \/ apiKey # e.API_KEY)

\* Mutant: the gate compares without first asking for a key.
apiKeyMiddlewareXCompareOnly(req, e) ==
    LET log == << [label |-> "API_KEY in Vercel:", texts |-> {e.API_KEY}],
                  [label |-> "Request Headers:", texts |-> HeaderTexts(req)] >>
        apiKey == header(req, "x-api-key")
    IN  GateOutcome(req, log, apiKey # e.API_KEY)

\* the x-api-key revision of the gate
apiKeyMiddlewareX(req, e) ==
    LET log == << [label |-> "API_KEY in Vercel:", texts |-> {e.API_KEY}],
                  [label |-> "Request Headers:", texts |-> HeaderTexts(req)] >>
        apiKey == header(req, "x-api-key")
    IN  GateOutcome(req, log, Not(apiKey) \/ apiKey # e.API_KEY)

\* app.use(path, apiKeyMiddleware, routes): the gate in front of a route group
Gate(req) ==
    IF revision = "authMiddleware" THEN apiKeyMiddleware(req, env)
    ELSE apiKeyMiddlewareX(req, env)

\* The header the deployed gate reads.
KeyOf(req) ==
    IF revision = "authMiddleware" THEN header(req, "API_KEY") ELSE header(req, "x-api-key")

\* -------------------------------------------------------------------- store

\* The number a Number path casts a JSON value to; other values fail the cast.
Numeric == ("30" :> 30) @@ ("300" :> 300) @@ ("350" :> 350)

\* Whether the schema can cast the value given for a field.
Castable(f, tok) == f \in StringFields \/ tok \in DOMAIN Numeric

\* The value stored for a field given as tok.
Cast(f, tok) == IF f \in NumberFields THEN Numeric[tok] ELSE tok

\* The fields a workout must have to be saved.
SchemaRequired == Fields

Given(body) == {f \in Fields : body[f] # Absent}

\* mongoose.isValidObjectId of a path parameter
IsObjectId(id) == id >= 1

Ids(coll) == {coll[i]._id : i \in 1 .. Len(coll)}

Remove(coll, i) == [j \in 1 .. Len(coll) - 1 |-> IF j < i THEN coll[j] ELSE coll[j + 1]]

\* A store call's outcome: whether it threw, the document it returned (none: null),
\* and the collection after it.
Outcome(threw, doc, coll) == [threw |-> threw, doc |-> doc, coll |-> coll]

\* Model.find().sort({ createdAt: -1 }): every order of the collection that is
\* descending in createdAt; documents of the same millisecond come in any order.
FindSorted(coll) ==
    LET n == Len(coll)
        perms == {p \in [1 .. n -> 1 .. n] : \A i, j \in 1 .. n : i # j => p[i] # p[j]}
    IN  {[i \in 1 .. n |-> coll[p[i]]] : p \in
            {q \in perms : \A i \in 1 .. n - 1 : coll[q[i]].createdAt >= coll[q[i + 1]].createdAt}}

\* new Workout(body) followed by save(): validation, then the insert with the
\* identifier and the creation time the store assigns.
Save(coll, body, id, now) ==
    IF (\E f \in SchemaRequired : body[f] = Absent)
       \/ (\E g \in Given(body) : ~Castable(g, body[g]))
    THEN Outcome(TRUE, <<>>, coll)
    ELSE LET doc == [_id |-> id,
                     name |-> Cast("name", body.name),
                     type |-> Cast("type", body.type),
                     duration |-> Cast("duration", body.duration),
                     caloriesBurned |-> Cast("caloriesBurned", body.caloriesBurned),
                     createdAt |-> now]
         IN  Outcome(FALSE, <<doc>>, Append(coll, doc))

\* The document after { $set: body }.
SetFields(doc, body) ==
    [_id |-> doc._id,
     name |-> IF body.name # Absent THEN Cast("name", body.name) ELSE doc.name,
     type |-> IF body.type # Absent THEN Cast("type", body.type) ELSE doc.type,
     duration |-> IF body.duration # Absent THEN Cast("duration", body.duration) ELSE doc.duration,
     caloriesBurned |-> IF body.caloriesBurned # Absent
                        THEN Cast("caloriesBurned", body.caloriesBurned) ELSE doc.caloriesBurned,
     createdAt |-> doc.createdAt]

\* Model.findByIdAndUpdate(id, body, { new: true, runValidators: true }): the casts
\* of the identifier and of the update come before the query.
FindByIdAndUpdate(coll, id, body) ==
    IF ~IsObjectId(id) \/ (\E f \in Given(body) : ~Castable(f, body[f]))
    THEN Outcome(TRUE, <<>>, coll)
    ELSE IF id \notin Ids(coll) THEN Outcome(FALSE, <<>>, coll)
    ELSE LET i == CHOOSE k \in 1 .. Len(coll) : coll[k]._id = id
             doc == SetFields(coll[i], body)
         IN  Outcome(FALSE, <<doc>>, [coll EXCEPT ![i] = doc])

\* Model.findByIdAndDelete(id)
FindByIdAndDelete(coll, id) ==
    IF ~IsObjectId(id) THEN Outcome(TRUE, <<>>, coll)
    ELSE IF id \notin Ids(coll) THEN Outcome(FALSE, <<>>, coll)
    ELSE LET i == CHOOSE k \in 1 .. Len(coll) : coll[k]._id = id
         IN  Outcome(FALSE, <<coll[i]>>, Remove(coll, i))

\* ----------------------------------------------------------------- handlers

\* What a handler answers and the workout collection it leaves.
Response(status, resp, coll) == [status |-> status, resp |-> resp, coll |-> coll]

\* app.get('/api/v1/workout' | '/api/v1/progress' | '/api/v1/user'): list is what
\* find().sort() returned, fault whether the store call threw.
getList(list, fault) ==
    IF fault THEN Response(500, <<>>, workouts)
    ELSE Response(200, list, workouts)

\* app.post('/api/v1/workout')
postWorkout(req, fault, now) ==
    LET r == Save(workouts, req.body, nextId, now)
    IN  IF fault \/ r.threw THEN Response(400, <<>>, workouts)
        ELSE Response(201, r.doc, r.coll)

\* Mutant: no `if (!updated)`, so an unknown identifier is answered 200.
putWorkoutNoCheck(req, fault) ==
    LET updated == FindByIdAndUpdate(workouts, req.id, req.body)
    IN  IF fault \/ updated.threw THEN Response(400, <<>>, workouts)
        ELSE Response(200, updated.doc, updated.coll)

\* Mutant: no { new: true }, so the answer carries the document before the update.
putWorkoutOld(req, fault) ==
    LET updated == FindByIdAndUpdate(workouts, req.id, req.body)
    IN  IF fault \/ updated.threw THEN Response(400, <<>>, workouts)
        ELSE IF updated.doc = <<>> THEN Response(404, <<>>, workouts)
        ELSE Response(200, SelectSeq(workouts, LAMBDA d : d._id = req.id), updated.coll)

\* app.put('/api/v1/workout/:id')
putWorkout(req, fault) ==
    LET updated == FindByIdAndUpdate(workouts, req.id, req.body)
    IN  IF fault \/ updated.threw THEN Response(400, <<>>, workouts)
        ELSE IF updated.doc = <<>> THEN Response(404, <<>>, workouts)
        ELSE Response(200, updated.doc, updated.coll)

\* The document the body replaces doc by: a field the body omits falls back to empty.
ReplaceFields(doc, body) ==
    [_id |-> doc._id,
     name |-> IF body.name # Absent THEN Cast("name", body.name) ELSE "",
     type |-> IF body.type # Absent THEN Cast("type", body.type) ELSE "",
     duration |-> IF body.duration # Absent THEN Cast("duration", body.duration) ELSE 0,
     caloriesBurned |-> IF body.caloriesBurned # Absent
                        THEN Cast("caloriesBurned", body.caloriesBurned) ELSE 0,
     createdAt |-> doc.createdAt]

\* Mutant: the update overwrites the document instead of setting the given fields.
patchWorkoutOverwrite(req, fault) ==
    LET updatedWorkout == FindByIdAndUpdate(workouts, req.id, req.body)
    IN  IF fault \/ updatedWorkout.threw THEN Response(400, <<>>, workouts)
        ELSE IF updatedWorkout.doc = <<>> THEN Response(404, <<>>, workouts)
        ELSE LET doc == ReplaceFields(updatedWorkout.doc[1], req.body)
             IN  Response(200, <<doc>>,
                          [i \in 1 .. Len(workouts) |->
                              IF workouts[i]._id = req.id THEN doc ELSE workouts[i]])

\* app.patch('/api/v1/workout/:id')
patchWorkout(req, fault) ==
    LET updatedWorkout == FindByIdAndUpdate(workouts, req.id, req.body)
    IN  IF fault \/ updatedWorkout.threw THEN Response(400, <<>>, workouts)
        ELSE IF updatedWorkout.doc = <<>> THEN Response(404, <<>>, workouts)
        ELSE Response(200, updatedWorkout.doc, updatedWorkout.coll)

\* Mutant: no `if (!deleted)`, so a delete that removed nothing is answered 200.
deleteWorkoutNoCheck(req, fault) ==
    LET del == FindByIdAndDelete(workouts, req.id)
    IN  IF fault \/ del.threw THEN Response(400, <<>>, workouts)
        ELSE Response(200, <<>>, del.coll)

\* app.delete('/api/v1/workout/:id')
deleteWorkout(req, fault) ==
    LET del == FindByIdAndDelete(workouts, req.id)
    IN  IF fault \/ del.threw THEN Response(400, <<>>, workouts)
        ELSE IF del.doc = <<>> THEN Response(404, <<>>, workouts)
        ELSE Response(200, <<>>, del.coll)

\* ----------------------------------------------------------------- requests

\* No response yet.
NoRes ==
    [status |-> 0, resp |-> <<>>, wrote |-> FALSE, next |-> 0, fwd |-> NoReq,
     handler |-> "none", calls |-> 0, fault |-> FALSE, log |-> <<>>]

\* No earlier exchange.
NoFirst == [request |-> NoReq, status |-> 0, resp |-> <<>>]

Routes ==
    {[method |-> "GET", path |-> "/api/v1/workout", id |-> FALSE, body |-> FALSE],
     [method |-> "POST", path |-> "/api/v1/workout", id |-> FALSE, body |-> TRUE],
     [method |-> "PUT", path |-> "/api/v1/workout", id |-> TRUE, body |-> TRUE],
     [method |-> "PATCH", path |-> "/api/v1/workout", id |-> TRUE, body |-> TRUE],
     [method |-> "DELETE", path |-> "/api/v1/workout", id |-> TRUE, body |-> FALSE],
     [method |-> "GET", path |-> "/api/v1/progress", id |-> FALSE, body |-> FALSE],
     [method |-> "GET", path |-> "/api/v1/user", id |-> FALSE, body |-> FALSE]}

\* A client's request to a protected route reaches the server: headers from H,
\* a JSON body from B.
Receive(H, B) ==
    /\ pc = "listening"
    /\ request = NoReq
    /\ first' = NoFirst
    /\ \E r \in Routes, h \in H :
        \E id \in IF r.id THEN PathIds ELSE {NoId}, b \in IF r.body THEN B ELSE {EmptyBody} :
            /\ r.method = "POST" => nextId <= MaxIds
            /\ request' = Req(r.method, r.path, id, h, b)
    /\ response' = NoRes
    /\ UNCHANGED <<pc, env, revision, workouts, progress, users, nextId, clock, deleted, before>>

\* The client follows an answered request up at once: it sends the same request
\* again or, after a create, lists the workouts.
Again ==
    /\ response # NoRes
    /\ first = NoFirst
    /\ first' = [request |-> request, status |-> response.status, resp |-> response.resp]
    /\ \/ request' = request /\ (request.method = "POST" => nextId <= MaxIds)
       \/ /\ request.method = "POST"
          /\ request' = Req("GET", "/api/v1/workout", NoId, request.headers, EmptyBody)
    /\ response' = NoRes
    /\ UNCHANGED <<pc, env, revision, workouts, progress, users, nextId, clock, deleted, before>>

\* One request through a protected route group: the gate, and behind it the
\* handler named `handler`, whose answer to the request is ans.
Serve(method, path, fault, handler, ans) ==
    LET g == Gate(request)
    IN  /\ request.method = method
        /\ request.path = path
        /\ response = NoRes
        /\ before' = workouts
        /\ IF g.next = 0
           THEN /\ response' = [status |-> g.status, resp |-> <<>>, wrote |-> g.wrote,
                           next |-> g.next, fwd |-> g.fwd, handler |-> "none", calls |-> 0,
                           fault |-> FALSE, log |-> g.log]
                /\ UNCHANGED <<workouts, nextId, clock, deleted>>
           ELSE /\ response' = [status |-> IF g.wrote THEN g.status ELSE ans.status,
                           resp |-> IF g.wrote THEN <<>> ELSE ans.resp, wrote |-> g.wrote,
                           next |-> g.next, fwd |-> g.fwd, handler |-> handler, calls |-> 1,
                           fault |-> fault, log |-> g.log]
                /\ workouts' = ans.coll
                /\ deleted' = deleted \cup (Ids(workouts) \ Ids(ans.coll))
                /\ IF ans.status = 201
                   THEN nextId' = nextId + 1 /\ clock' = ans.resp[1].createdAt
                   ELSE UNCHANGED <<nextId, clock>>
        /\ UNCHANGED <<pc, env, revision, progress, users, request, first>>

GetWorkouts ==
    \E fault \in BOOLEAN, list \in FindSorted(workouts) :
        Serve("GET", "/api/v1/workout", fault, "getWorkouts", getList(list, fault))

\* The insert happens in the millisecond of the last one or in a later one.
PostWorkout ==
    \E fault \in BOOLEAN, now \in {clock, clock + 1} :
        Serve("POST", "/api/v1/workout", fault, "postWorkout", postWorkout(request, fault, now))

PutWorkout ==
    /\ request.method = "PUT"
    /\ \E fault \in BOOLEAN :
          Serve("PUT", "/api/v1/workout", fault, "putWorkout", putWorkout(request, fault))

PatchWorkout ==
    /\ request.method = "PATCH"
    /\ \E fault \in BOOLEAN :
          Serve("PATCH", "/api/v1/workout", fault, "patchWorkout", patchWorkout(request, fault))

DeleteWorkout ==
    /\ request.method = "DELETE"
    /\ \E fault \in BOOLEAN :
          Serve("DELETE", "/api/v1/workout", fault, "deleteWorkout", deleteWorkout(request, fault))

GetProgress ==
    \E fault \in BOOLEAN, list \in FindSorted(progress) :
        Serve("GET", "/api/v1/progress", fault, "getProgress", getList(list, fault))

GetUsers ==
    \E fault \in BOOLEAN, list \in FindSorted(users) :
        Serve("GET", "/api/v1/user", fault, "getUsers", getList(list, fault))

\* The response has been sent: the exchange is over.
Finish ==
    /\ response # NoRes
    /\ request' = NoReq
    /\ response' = NoRes
    /\ before' = workouts
    /\ first' = NoFirst
    /\ UNCHANGED <<pc, env, revision, workouts, progress, users, nextId, clock, deleted>>

\* ------------------------------------------------------------------ start-up

\* config/db's mongooseConnect(): whether it ends the process.
mongooseConnect(e) == e.MONGO_URI = Undefined

\* The top level of index.js, from require('dotenv').config() to app.listen().
Startup ==
    /\ pc = "boot"
    /\ pc' = IF mongooseConnect(env) THEN "exited" ELSE "listening"
    /\ UNCHANGED <<env, revision, workouts, progress, users, nextId, clock, deleted, request,
                   response, before, first>>

\* ------------------------------------------------------------ specifications

InitStore ==
    /\ workouts = <<>>
    /\ progress = << [_id |-> 1, userId |-> 1, weight |-> 80, createdAt |-> 0] >>
    /\ users = << [_id |-> 1, name |-> "Ann", age |-> 30, createdAt |-> 0] >>
    /\ nextId = 1
    /\ clock = 0
    /\ deleted = {}
    /\ request = NoReq
    /\ response = NoRes
    /\ before = <<>>
    /\ first = NoFirst

Handle ==
    \/ GetWorkouts
    \/ PostWorkout
    \/ PutWorkout
    \/ PatchWorkout
    \/ DeleteWorkout
    \/ GetProgress
    \/ GetUsers

\* Any environment, either revision of the gate, any key header.
Init ==
    /\ pc = "boot"
    /\ env \in [API_KEY : SecretValues, MONGO_URI : UriValues]
    /\ revision \in Revisions
    /\ InitStore

Next == Startup \/ Receive(AllHeaders, FewBodies) \/ Handle \/ Again \/ Finish

Spec == Init /\ [][Next]_vars

\* A configured deployment of index.js, any body.
InitCrud ==
    /\ pc = "boot"
    /\ env = [API_KEY |-> "k1", MONGO_URI |-> "mongodb://db"]
    /\ revision = "authMiddleware"
    /\ InitStore

NextCrud == Startup \/ Receive(FewHeaders, AllBodies) \/ Handle \/ Again \/ Finish

SpecCrud == InitCrud /\ [][NextCrud]_vars

\* ------------------------------------------------------------------- claims

Answered == response # NoRes

Secret == env.API_KEY

Key == KeyOf(request)

\* The request carries the configured, non-empty secret.
Authorized == ~Not(Secret) /\ Key = Secret

\* The gate wrote the 401 and never called next().
Rejected == response.status = 401 /\ response.wrote /\ response.next = 0

\* The gate called next() once, handed the request on as it came, wrote nothing.
Forwarded == response.next = 1 /\ response.fwd = request /\ ~response.wrote

\* The store call of the request's handler did not fail for want of the store
\* (response.fault): all claims about handlers are about such requests.

\* The schema can cast every value the body gives.
ValidBody(b) == \A f \in Given(b) : Castable(f, b[f])

IsMethod(m) == request.method = m /\ request.path = "/api/v1/workout"

\* C1 as stated: the gate answers 401 exactly when the key header is absent or
\* differs from the secret, and otherwise forwards the request untouched.
C1_Original ==
    Answered =>
        /\ response.status = 401 <=> (Key = Undefined \/ Key # Secret)
        /\ response.status # 401 => Forwarded

\* C1 amended: the gate answers 401 exactly when the key header is absent, empty
\* or different from the secret; otherwise it calls next() exactly once, hands
\* the request on unmodified and writes no response itself.
C1_Amended ==
    Answered =>
        /\ response.status = 401 <=> (Key = Undefined \/ Key = "" \/ Key # Secret)
        /\ response.status = 401 => Rejected
        /\ response.status # 401 => Forwarded

\* C1 witness: a request with the right key went through the gate.
C1_Witness == Answered /\ Key = "k1" /\ Secret = "k1" /\ Forwarded

\* C2: with the secret unset or empty, every request is answered 401 by the gate,
\* whatever its key header holds, and none is forwarded.
C2_EmptySecretRejectsAll ==
    (Answered /\ Not(Secret)) =>
        /\ Rejected
        /\ response.handler = "none"
        /\ response.fwd = NoReq

\* C2 witness: the secret is unset, a request came with a key and got the 401.
C2_Witness == Answered /\ Secret = Undefined /\ Key = "k1" /\ response.status = 401

\* The key header is absent or is not the secret.
LacksSecret == Key = Undefined \/ Key # Secret

\* C3: a request without the correct secret, whatever its verb and body, is
\* answered 401, runs no handler, makes no store call and leaves the workout,
\* progress and user collections as they were.
C3_UnauthorizedNoEffect ==
    [][(response = NoRes /\ response' # NoRes /\ LacksSecret) =>
          /\ response'.status = 401
          /\ response'.handler = "none"
          /\ response'.calls = 0
          /\ store' = store]_vars

\* C3 witness: a DELETE of an existing workout came with a wrong key and got the 401.
C3_Witness ==
    /\ Answered
    /\ IsMethod("DELETE")
    /\ request.id \in Ids(workouts)
    /\ Key = "k2"
    /\ response.status = 401

\* C4 as stated: a valid, authorized create is answered 201 with an entity whose
\* identifier was never in the collection, and a list right after it has that
\* entity first.
C4_Original ==
    /\ (Answered /\ IsMethod("POST") /\ Authorized /\ ~response.fault
           /\ Given(request.body) = Fields /\ ValidBody(request.body)) =>
          /\ response.status = 201
          /\ Len(response.resp) = 1
          /\ response.resp[1]._id \notin Ids(before) \cup deleted
          /\ \E i \in 1 .. Len(workouts) : workouts[i] = response.resp[1]
    /\ (Answered /\ IsMethod("GET") /\ response.status = 200
           /\ first.request.method = "POST" /\ first.status = 201) =>
          /\ response.resp # <<>>
          /\ response.resp[1] = first.resp[1]

\* The fields of a stored workout the body does not give.
Omitted(b) == {"_id", "createdAt"} \cup (Fields \ Given(b))

\* C5: a partial update answered 200 changes, in the addressed workout, only the
\* fields the body gives; the omitted fields, the identifier and every other
\* workout keep their values, and the answer carries the workout as updated.
C5_PatchOnlyGiven ==
    (Answered /\ IsMethod("PATCH") /\ response.status = 200) =>
        /\ Len(workouts) = Len(before)
        /\ \E i \in 1 .. Len(before) :
              /\ before[i]._id = request.id
              /\ \A j \in 1 .. Len(before) : j # i => workouts[j] = before[j]
              /\ \A f \in Omitted(request.body) : workouts[i][f] = before[i][f]
              /\ \A f \in Given(request.body) : workouts[i][f] = Cast(f, request.body[f])
              /\ response.resp = <<workouts[i]>>

\* C5 witness: a patch of caloriesBurned alone changed a workout.
C5_Witness ==
    /\ Answered
    /\ IsMethod("PATCH")
    /\ response.status = 200
    /\ Given(request.body) = {"caloriesBurned"}
    /\ workouts # before

C9_Original ==
    (Answered /\ ~Not(Secret)) =>
        \A i \in 1 .. Len(response.log) : Secret \notin response.log[i].texts

\* C10 as stated: the process listens only if both the secret and the store
\* connection string were in the environment at start.
C10_Original ==
    pc = "listening" => (env.API_KEY # Undefined /\ env.MONGO_URI # Undefined)

====
